---------------------------- MODULE Spec2Model ----------------------------
(***************************************************************************)
(* Model of the lineup optimizer: the game simulator (player_hit,          *)
(* simulate_inning, simulate_game), the genetic engine                     *)
(* (GeneticLineupOptimizer) and the seeding done by                        *)
(* MasterLineupOptimizer.run_genetic_phase.                                *)
(*                                                                         *)
(* Python's random module is modelled as nondeterministic choice.  Player  *)
(* objects are modelled by their index in the roster; None is 0.           *)
(***************************************************************************)
EXTENDS Integers, Sequences, FiniteSets, TLC

\* ------------------------------------------------------------------ bounds
\* runs scored in one inning that the model follows
MaxRuns == 3
\* innings per game (the innings argument of simulate_game)
MaxInnings == 2
\* length of the lineups handed to the simulator
MaxSimLineup == 2
\* mean runs of an evaluation (fitness values are 0..MaxFitness)
MaxFitness == 1
\* generations argument of optimize
MaxGenerations == 2
\* number of seed lineups handed to run_genetic_phase
MaxSeeds == 1
\* players that the parents handed to order_crossover are drawn from
MaxOXPlayers == 4
\* length of the parents handed to order_crossover
MaxOXLen == 3
\* length of the lineups handed to swap_mutation
MaxSMLen == 3
\* length of the population handed to tournament_selection
MaxTSPop == 3
\* length of the lineups handed to simulate_inning called on its own
MaxInningLineup == 3
\* num_games argument of evaluate_lineup
MaxGames == 2

\* the further optimize calls followed on one engine instance
MaxReruns == 1
\* AB, and each of the 1B, 2B, 3B and HR counts, of the Player objects handed
\* to player_hit called on its own
MaxAB == 3
MaxHitCount == 1
\* the lineup_size argument of GeneticLineupOptimizer.__init__
MaxLineupSizeArg == 5

\* ------------------------------------------------------------------ roster
None == 0

\* Player.__init__: the stored counts of each roster player.
\* Player 3 never makes an out (ab = singles + doubles).
Roster ==
  << [name |-> "Ann", ab |-> 5, singles |-> 1, doubles |-> 1, triples |-> 1, homers |-> 1],
     [name |-> "Bob", ab |-> 3, singles |-> 1, doubles |-> 0, triples |-> 1, homers |-> 0],
     [name |-> "Cy",  ab |-> 2, singles |-> 1, doubles |-> 1, triples |-> 0, homers |-> 0],
     [name |-> "Dee", ab |-> 2, singles |-> 1, doubles |-> 0, triples |-> 0, homers |-> 0] >>

PlayerIds == DOMAIN Roster

\* load_players: the players of the CSV file the optimizers are run on (the
\* first three of the roster)
EnginePlayers == <<1, 2, 3>>

\* Player.__init__: self.hits
Hits(p) == Roster[p].singles + Roster[p].doubles + Roster[p].triples + Roster[p].homers

\* Player.__init__: self.outs = ab - self.hits
Outs(p) == Roster[p].ab - Hits(p)

\* player_hit: the labels that occur in the token list `outcomes`
\* (['out'] * n is empty for n <= 0)
Outcomes(p) ==
  {l \in {"out", "1B", "2B", "3B", "HR"} :
     CASE l = "out" -> Outs(p) > 0
       [] l = "1B"  -> Roster[p].singles > 0
       [] l = "2B"  -> Roster[p].doubles > 0
       [] l = "3B"  -> Roster[p].triples > 0
       [] l = "HR"  -> Roster[p].homers > 0}

\* ---------------------------------------------------------------- helpers
Range(s) == {s[i] : i \in DOMAIN s}

NoDup(s) == \A i, j \in DOMAIN s : i # j => s[i] # s[j]

\* duplicate-free sequences of length n over the set S
Perms(S, n) == {s \in [1..n -> S] : NoDup(s)}

\* sum(1 for base in bases if base is not None)
Occupied(b) == Cardinality({i \in 1..3 : b[i] # None})

\* truthiness of a base slot (`if bases[2]:`): a Player object is truthy
Runner(x) == IF x # None THEN 1 ELSE 0

\* sum(s) of a sequence of numbers
RECURSIVE SeqSum(_)
SeqSum(s) == IF s = <<>> THEN 0 ELSE s[1] + SeqSum(Tail(s))

\* statistics.stdev(xs) for two values or more, kept exact: n (n - 1) times
\* its square, n sum(x^2) - sum(x)^2; it is 0 exactly when stdev(xs) is 0.0
StdevScaled(xs) ==
  Len(xs) * SeqSum([i \in DOMAIN xs |-> xs[i] * xs[i]]) - SeqSum(xs) * SeqSum(xs)

\* LineupResult.__init__: statistics.stdev(runs_per_game) if
\* len(runs_per_game) > 1 else 0.0
StdDev(xs) == IF Len(xs) > 1 THEN StdevScaled(xs) ELSE 0

VARIABLES
  \* simulate_game / simulate_inning
  lineup, innings, simPc, inning, total_runs, inning_scores, batter_index,
  bases, outs, runs, current_batter, player, result,
  \* the results player_hit has returned in the inning being played, in
  \* order (kept by the specifications that follow single innings)
  at_bats,
  \* GeneticLineupOptimizer: its fields
  players, lineup_size, population_size, tournament_size,
  population, fitness_cache,
  \* optimize / evolve_generation: arguments, locals and position
  gaPc, generations, generation, fitness_scores, new_population,
  final_results, sorted_results,
  \* run_genetic_phase: its seed_lineups argument (the lineups of the results)
  seed_lineups,
  \* number of evaluate_lineup calls evaluate_fitness has made per cache key
  sim_calls,
  \* optimize: its num_games argument and its best_fitness_history; the
  \* optimize calls that have returned on this engine; the lineup_size
  \* argument of __init__ while the engine is being built
  ga_num_games, best_fitness_history, earlier_runs, lineup_size_arg,
  \* order_crossover called on its own: arguments, cut points, result
  oxPc, parent1, parent2, cuts, child,
  \* evaluate_lineup: position, num_games argument, runs_per_game, the
  \* LineupResult returned
  evPc, num_games, runs_per_game, lineup_result,
  \* tournament_selection called on its own: position, the indices drawn,
  \* winner_index, the lineup returned
  tsPc, tournament_indices, winner_index, winner,
  \* swap_mutation called on its own: position, the list passed in, the
  \* positions drawn (none when random.random() >= mutation_rate), the
  \* lineup returned
  smPc, sm_lineup, swap, mutated,
  \* player_hit called on its own: position, the counts of the Player
  \* passed in, the token list, the index drawn, the label returned
  hitPc, hit_player, outcomes, choice, hit_result

simVars == <<lineup, innings, simPc, inning, total_runs, inning_scores,
             batter_index, bases, outs, runs, current_batter, player, result,
             at_bats>>

gaVars == <<players, lineup_size, population_size, tournament_size,
            population, fitness_cache, gaPc, generations, generation,
            fitness_scores, new_population, final_results, sorted_results,
            seed_lineups, sim_calls, ga_num_games, best_fitness_history,
            earlier_runs, lineup_size_arg>>

oxVars == <<oxPc, parent1, parent2, cuts, child>>

evalVars == <<evPc, num_games, runs_per_game, lineup_result>>

\* what neither the simulator nor a run of the engine touches
tsVars == <<tsPc, tournament_indices, winner_index, winner>>

smVars == <<smPc, sm_lineup, swap, mutated>>

hitVars == <<hitPc, hit_player, outcomes, choice, hit_result>>

otherVars == <<oxVars, evalVars, tsVars, smVars, hitVars>>

vars == <<simVars, gaVars, otherVars>>

\* ------------------------------------------------------- simulate_inning
\* RunsScored with the single also scoring the runner on second
RunsScoredSingleBug(b, r) ==
  CASE r = "out" -> 0
    [] r = "1B"  -> Runner(b[2]) + Runner(b[3])
    [] r = "2B"  -> Runner(b[2]) + Runner(b[3])
    [] r = "3B"  -> Occupied(b)
    [] r = "HR"  -> Occupied(b) + 1

\* RunsScored with the triple also scoring the batter
RunsScoredTripleBug(b, r) ==
  CASE r = "out" -> 0
    [] r = "1B"  -> Runner(b[3])
    [] r = "2B"  -> Runner(b[2]) + Runner(b[3])
    [] r = "3B"  -> Occupied(b) + 1
    [] r = "HR"  -> Occupied(b) + 1

\* RunsScored with the home run scoring the runners only
RunsScoredHomerBug(b, r) ==
  CASE r = "out" -> 0
    [] r = "1B"  -> Runner(b[3])
    [] r = "2B"  -> Runner(b[2]) + Runner(b[3])
    [] r = "3B"  -> Occupied(b)
    [] r = "HR"  -> Occupied(b)

\* RunsScored with the out scoring the runner of third
RunsScoredSacFly(b, r) ==
  CASE r = "out" -> Runner(b[3])
    [] r = "1B"  -> Runner(b[3])
    [] r = "2B"  -> Runner(b[2]) + Runner(b[3])
    [] r = "3B"  -> Occupied(b)
    [] r = "HR"  -> Occupied(b) + 1

\* the if/elif chain of simulate_inning for one result: the runs it adds
RunsScored(b, r) ==
  CASE r = "out" -> 0
    [] r = "1B"  -> Runner(b[3])
    [] r = "2B"  -> Runner(b[2]) + Runner(b[3])
    [] r = "3B"  -> Occupied(b)
    [] r = "HR"  -> Occupied(b) + 1

\* BasesAfter with the double leaving the runner of first where he is
BasesAfterDoubleBug(b, r, p) ==
  CASE r = "out" -> b
    [] r = "1B"  -> <<p, b[1], b[2]>>
    [] r = "2B"  -> <<b[1], p, None>>
    [] r = "3B"  -> <<None, None, p>>
    [] r = "HR"  -> <<None, None, None>>

\* BasesAfter with the single leaving the runner of second where he is
BasesAfterSingleBug(b, r, p) ==
  CASE r = "out" -> b
    [] r = "1B"  -> <<p, b[1], b[3]>>
    [] r = "2B"  -> <<None, p, b[1]>>
    [] r = "3B"  -> <<None, None, p>>
    [] r = "HR"  -> <<None, None, None>>

\* BasesAfter with the out taking the lead runner off the bases
BasesAfterForceOut(b, r, p) ==
  CASE r = "out" -> IF b[3] # None THEN <<b[1], b[2], None>>
                    ELSE IF b[2] # None THEN <<b[1], None, None>>
                    ELSE <<None, None, None>>
    [] r = "1B"  -> <<p, b[1], b[2]>>
    [] r = "2B"  -> <<None, p, b[1]>>
    [] r = "3B"  -> <<None, None, p>>
    [] r = "HR"  -> <<None, None, None>>

\* the if/elif chain of simulate_inning for one result: the bases after it
BasesAfter(b, r, p) ==
  CASE r = "out" -> b
    [] r = "1B"  -> <<p, b[1], b[2]>>
    [] r = "2B"  -> <<None, p, b[1]>>
    [] r = "3B"  -> <<None, None, p>>
    [] r = "HR"  -> <<None, None, None>>

\* OutsAfter counting an out twice
OutsAfterDoubleCount(o, r) == IF r = "out" THEN o + 2 ELSE o

\* outs += 1 on 'out'
OutsAfter(o, r) == IF r = "out" THEN o + 1 ELSE o

\* StartInning with the batting order starting over
StartInningReset ==
  /\ simPc = "game"
  /\ inning < innings
  /\ bases' = <<None, None, None>>
  /\ outs' = 0
  /\ runs' = 0
  /\ current_batter' = 0
  /\ simPc' = "loop"
  /\ UNCHANGED <<gaVars, otherVars>>
  /\ UNCHANGED <<lineup, innings, inning, total_runs, inning_scores,
                 batter_index, player, result>>

\* simulate_game: the for loop calls simulate_inning(lineup, batter_index);
\* simulate_inning initialises its locals
StartInning ==
  /\ simPc = "game"
  /\ inning < innings
  /\ bases' = <<None, None, None>>
  /\ outs' = 0
  /\ runs' = 0
  /\ current_batter' = batter_index
  /\ simPc' = "loop"
  /\ UNCHANGED <<gaVars, otherVars>>
  /\ UNCHANGED <<lineup, innings, inning, total_runs, inning_scores,
                 batter_index, player, result>>

\* while outs < 3: player = lineup[current_batter]; result = player_hit(player)
PlayerHit(r) ==
  /\ simPc = "loop"
  /\ outs < 3
  /\ r \in Outcomes(lineup[current_batter + 1])
  /\ player' = lineup[current_batter + 1]
  /\ result' = r
  /\ simPc' = "apply"
  /\ UNCHANGED <<gaVars, otherVars>>
  /\ UNCHANGED <<lineup, innings, inning, total_runs, inning_scores,
                 batter_index, bases, outs, runs, current_batter>>

\* ApplyResult with the cursor staying on a batter who made an out
ApplyResultOutStays ==
  /\ simPc = "apply"
  /\ runs + RunsScored(bases, result) <= MaxRuns
  /\ outs' = OutsAfter(outs, result)
  /\ runs' = runs + RunsScored(bases, result)
  /\ bases' = BasesAfter(bases, result, player)
  /\ current_batter' = IF result = "out" THEN current_batter
                       ELSE (current_batter + 1) % Len(lineup)
  /\ simPc' = "loop"
  /\ UNCHANGED <<gaVars, otherVars>>
  /\ UNCHANGED <<lineup, innings, inning, total_runs, inning_scores,
                 batter_index, player, result>>

\* the if/elif chain, then current_batter = (current_batter + 1) % len(lineup)
ApplyResult ==
  /\ simPc = "apply"
  /\ runs + RunsScored(bases, result) <= MaxRuns
  /\ outs' = OutsAfter(outs, result)
  /\ runs' = runs + RunsScored(bases, result)
  /\ bases' = BasesAfter(bases, result, player)
  /\ current_batter' = (current_batter + 1) % Len(lineup)
  /\ simPc' = "loop"
  /\ UNCHANGED <<gaVars, otherVars>>
  /\ UNCHANGED <<lineup, innings, inning, total_runs, inning_scores,
                 batter_index, player, result>>

\* ReturnInning with the total replaced by the inning's runs
ReturnInningOverwrite ==
  /\ simPc = "loop"
  /\ ~(outs < 3)
  /\ batter_index' = current_batter
  /\ total_runs' = runs
  /\ inning_scores' = Append(inning_scores, runs)
  /\ inning' = inning + 1
  /\ simPc' = "game"
  /\ UNCHANGED <<gaVars, otherVars>>
  /\ UNCHANGED <<lineup, innings, bases, outs, runs, current_batter, player, result>>

\* the while loop ends; return runs, current_batter; simulate_game adds the
\* inning to its totals
ReturnInning ==
  /\ simPc = "loop"
  /\ ~(outs < 3)
  /\ batter_index' = current_batter
  /\ total_runs' = total_runs + runs
  /\ inning_scores' = Append(inning_scores, runs)
  /\ inning' = inning + 1
  /\ simPc' = "game"
  /\ UNCHANGED <<gaVars, otherVars>>
  /\ UNCHANGED <<lineup, innings, bases, outs, runs, current_batter, player, result>>

\* simulate_game: the for loop is over, the dict is returned
EndGame ==
  /\ simPc = "game"
  /\ inning = innings
  /\ simPc' = "done"
  /\ UNCHANGED <<gaVars, otherVars>>
  /\ UNCHANGED <<lineup, innings, inning, total_runs, inning_scores,
                 batter_index, bases, outs, runs, current_batter, player, result>>

\* no engine exists
GaIdle ==
  /\ players = <<>>
  /\ lineup_size = 0
  /\ population_size = 0
  /\ tournament_size = 0
  /\ population = <<>>
  /\ fitness_cache = <<>>
  /\ gaPc = "idle"
  /\ generations = 0
  /\ generation = 0
  /\ fitness_scores = <<>>
  /\ new_population = <<>>
  /\ final_results = <<>>
  /\ sorted_results = <<>>
  /\ seed_lineups = <<>>
  /\ sim_calls = <<>>
  /\ ga_num_games = 0
  /\ best_fitness_history = <<>>
  /\ earlier_runs = 0
  /\ lineup_size_arg = 0

\* order_crossover is not being called on its own
OxCallIdle ==
  /\ oxPc = "idle"
  /\ parent1 = <<>>
  /\ parent2 = <<>>
  /\ cuts = <<>>
  /\ child = <<>>

\* evaluate_lineup is not being called
EvalIdle ==
  /\ evPc = "idle"
  /\ num_games = 0
  /\ runs_per_game = <<>>
  /\ lineup_result = None

\* tournament_selection is not being called on its own
TsIdle ==
  /\ tsPc = "idle"
  /\ tournament_indices = <<>>
  /\ winner_index = 0
  /\ winner = <<>>

\* swap_mutation is not being called on its own
SmIdle ==
  /\ smPc = "idle"
  /\ sm_lineup = <<>>
  /\ swap = <<>>
  /\ mutated = <<>>

\* player_hit is not being called on its own
HitIdle ==
  /\ hitPc = "idle"
  /\ hit_player = None
  /\ outcomes = <<>>
  /\ choice = 0
  /\ hit_result = "none"

\* none of the other operations is being followed
OxIdle ==
  /\ OxCallIdle
  /\ EvalIdle
  /\ TsIdle
  /\ SmIdle
  /\ HitIdle

\* no game is being simulated step by step
SimIdle ==
  /\ lineup = <<>>
  /\ innings = 0
  /\ simPc = "idle"
  /\ inning = 0
  /\ total_runs = 0
  /\ inning_scores = <<>>
  /\ batter_index = 0
  /\ bases = <<None, None, None>>
  /\ outs = 0
  /\ runs = 0
  /\ current_batter = 0
  /\ player = None
  /\ result = "none"
  /\ at_bats = <<>>

\* the lineups handed to the simulator
SimLineups == UNION {Perms(Range(EnginePlayers), n) : n \in 1..MaxSimLineup}

\* simulate_game(lineup, innings): total_runs = 0, inning_scores = [],
\* batter_index = 0
InitSim ==
  /\ lineup \in SimLineups
  /\ innings \in 0..MaxInnings
  /\ simPc = "game"
  /\ inning = 0
  /\ total_runs = 0
  /\ inning_scores = <<>>
  /\ batter_index = 0
  /\ bases = <<None, None, None>>
  /\ outs = 0
  /\ runs = 0
  /\ current_batter = 0
  /\ player = None
  /\ result = "none"
  /\ at_bats = <<>>
  /\ GaIdle
  /\ OxIdle

NextSim ==
  \/ StartInning /\ UNCHANGED at_bats
  \/ \E r \in {"out", "1B", "2B", "3B", "HR"} : PlayerHit(r) /\ UNCHANGED at_bats
  \/ ApplyResult /\ UNCHANGED at_bats
  \/ ReturnInning /\ UNCHANGED at_bats
  \/ EndGame /\ UNCHANGED at_bats

SpecSim == InitSim /\ [][NextSim]_vars

\* ApplyResult for the runs past MaxRuns: the same step with the run total
\* kept at MaxRuns (the loop reads outs, never runs, so the abstraction
\* keeps every inning's at-bats as they are)
ApplyBeyond ==
  /\ simPc = "apply"
  /\ runs + RunsScored(bases, result) > MaxRuns
  /\ outs' = OutsAfter(outs, result)
  /\ runs' = MaxRuns
  /\ bases' = BasesAfter(bases, result, player)
  /\ current_batter' = (current_batter + 1) % Len(lineup)
  /\ simPc' = "loop"
  /\ UNCHANGED <<gaVars, otherVars>>
  /\ UNCHANGED <<lineup, innings, inning, total_runs, inning_scores,
                 batter_index, player, result>>

NextSimFair ==
  \/ NextSim
  \/ ApplyBeyond /\ UNCHANGED at_bats

\* the simulator with no bound on the at-bats of an inning: every step
\* that can be taken is taken, and random.choice draws every token of a
\* batter who keeps coming up again and again
SpecSimFair ==
  /\ InitSim
  /\ [][NextSimFair]_vars
  /\ WF_vars((StartInning \/ ApplyResult \/ ApplyBeyond \/ ReturnInning \/ EndGame)
               /\ UNCHANGED at_bats)
  /\ \A r \in {"out", "1B", "2B", "3B", "HR"} : SF_vars(PlayerHit(r) /\ UNCHANGED at_bats)

\* ------------------------------------- simulate_inning called on its own
\* the lineups handed to simulate_inning: up to MaxInningLineup players of
\* the roster
InningLineups == UNION {Perms(PlayerIds, n) : n \in 1..MaxInningLineup}

\* simulate_inning(lineup, batter_index) is about to be called
InitInning ==
  /\ lineup \in InningLineups
  /\ batter_index \in 0..(Len(lineup) - 1)
  /\ simPc = "call"
  /\ innings = 0
  /\ inning = 0
  /\ total_runs = 0
  /\ inning_scores = <<>>
  /\ bases = <<None, None, None>>
  /\ outs = 0
  /\ runs = 0
  /\ current_batter = 0
  /\ player = None
  /\ result = "none"
  /\ at_bats = <<>>
  /\ GaIdle
  /\ OxIdle

\* simulate_inning: bases = [None, None, None], outs = 0, runs = 0,
\* current_batter = batter_index
CallInning ==
  /\ simPc = "call"
  /\ bases' = <<None, None, None>>
  /\ outs' = 0
  /\ runs' = 0
  /\ current_batter' = batter_index
  /\ at_bats' = <<>>
  /\ simPc' = "loop"
  /\ UNCHANGED <<gaVars, otherVars>>
  /\ UNCHANGED <<lineup, innings, inning, total_runs, inning_scores,
                 batter_index, player, result>>

\* simulate_inning: the while loop ends, return runs, current_batter
InningReturns ==
  /\ simPc = "loop"
  /\ ~(outs < 3)
  /\ simPc' = "returned"
  /\ UNCHANGED <<gaVars, otherVars>>
  /\ UNCHANGED <<lineup, innings, inning, total_runs, inning_scores,
                 batter_index, bases, outs, runs, current_batter, player, result,
                 at_bats>>

\* the at-bats of the inning, each result of player_hit being recorded
NextInning ==
  \/ CallInning
  \/ \E r \in {"out", "1B", "2B", "3B", "HR"} : PlayerHit(r) /\ at_bats' = Append(at_bats, r)
  \/ ApplyResult /\ UNCHANGED at_bats
  \/ InningReturns

SpecInning == InitInning /\ [][NextInning]_vars

\* ------------------------------------------------------ evaluate_lineup
\* EvalStartGame with the batting order going on where the last game ended
EvalStartGameCarry ==
  /\ evPc = "loop"
  /\ simPc = "idle"
  /\ Len(runs_per_game) < num_games
  /\ total_runs' = 0
  /\ inning_scores' = <<>>
  /\ inning' = 0
  /\ simPc' = "game"
  /\ UNCHANGED <<lineup, innings, batter_index, bases, outs, runs, current_batter,
                 player, result, at_bats>>
  /\ UNCHANGED <<gaVars, otherVars>>

\* evaluate_lineup, one turn of `for _ in range(num_games)`: the call
\* simulate_game(lineup, innings) sets total_runs = 0, inning_scores = [],
\* batter_index = 0 (the locals of the last simulate_inning call are gone)
EvalStartGame ==
  /\ evPc = "loop"
  /\ simPc = "idle"
  /\ Len(runs_per_game) < num_games
  /\ total_runs' = 0
  /\ inning_scores' = <<>>
  /\ batter_index' = 0
  /\ inning' = 0
  /\ simPc' = "game"
  /\ UNCHANGED <<lineup, innings, bases, outs, runs, current_batter, player, result,
                 at_bats>>
  /\ UNCHANGED <<gaVars, otherVars>>

\* evaluate_lineup: runs_per_game.append(game_result['total_runs'])
EvalAppend ==
  /\ evPc = "loop"
  /\ simPc = "done"
  /\ runs_per_game' = Append(runs_per_game, total_runs)
  /\ simPc' = "idle"
  /\ UNCHANGED <<evPc, num_games, lineup_result>>
  /\ UNCHANGED <<lineup, innings, inning, total_runs, inning_scores,
                 batter_index, bases, outs, runs, current_batter, player, result,
                 at_bats>>
  /\ UNCHANGED <<gaVars, oxVars, tsVars, smVars, hitVars>>

\* evaluate_lineup: return LineupResult(lineup, runs_per_game);
\* LineupResult.__init__ stores lineup, runs_per_game and total_games
\* (statistics.mean needs at least one game)
EvalReturn ==
  /\ evPc = "loop"
  /\ simPc = "idle"
  /\ ~(Len(runs_per_game) < num_games)
  /\ Len(runs_per_game) > 0
  /\ lineup_result' = [lineup |-> lineup, runs_per_game |-> runs_per_game,
                        std_dev |-> StdDev(runs_per_game),
                        total_games |-> Len(runs_per_game)]
  /\ evPc' = "returned"
  /\ UNCHANGED <<num_games, runs_per_game>>
  /\ UNCHANGED <<simVars, gaVars, oxVars, tsVars, smVars, hitVars>>

\* the same return for an empty runs_per_game: statistics.mean raises
\* StatisticsError in LineupResult.__init__, and no result is returned
EvalRaises ==
  /\ evPc = "loop"
  /\ simPc = "idle"
  /\ ~(Len(runs_per_game) < num_games)
  /\ Len(runs_per_game) = 0
  /\ evPc' = "error"
  /\ UNCHANGED <<num_games, runs_per_game, lineup_result>>
  /\ UNCHANGED <<simVars, gaVars, oxVars, tsVars, smVars, hitVars>>

\* the innings argument of the evaluations followed: games of no inning
\* and of one inning
EvalInnings == {0, 1}

\* evaluate_lineup(lineup, num_games, innings) is called: runs_per_game = []
InitEval ==
  /\ lineup \in SimLineups
  /\ innings \in EvalInnings
  /\ num_games \in 0..MaxGames
  /\ evPc = "loop"
  /\ runs_per_game = <<>>
  /\ lineup_result = None
  /\ simPc = "idle"
  /\ inning = 0
  /\ total_runs = 0
  /\ inning_scores = <<>>
  /\ batter_index = 0
  /\ bases = <<None, None, None>>
  /\ outs = 0
  /\ runs = 0
  /\ current_batter = 0
  /\ player = None
  /\ result = "none"
  /\ at_bats = <<>>
  /\ GaIdle
  /\ OxCallIdle
  /\ TsIdle
  /\ SmIdle
  /\ HitIdle

NextEval ==
  \/ EvalStartGame
  \/ NextSim
  \/ EvalAppend
  \/ EvalReturn
  \/ EvalRaises

SpecEval == InitEval /\ [][NextEval]_vars

\* ------------------------------------------- GeneticLineupOptimizer
\* mean_runs of a LineupResult: the outcome of the random games
FitnessValues == 0..MaxFitness

Min(a, b) == IF a < b THEN a ELSE b

\* create_random_lineup: the results random.sample(self.players,
\* self.lineup_size) can give
RandomLineups == Perms(Range(players), lineup_size)

\* evaluate_fitness: lineup_key = tuple(player.name for player in lineup)
LineupKey(l) == [i \in DOMAIN l |-> Roster[l[i]].name]

\* random.sample(range(n), k): k pairwise distinct indices in draw order
\* (no result, a ValueError, when k > n)
Sample(n, k) == Perms(0..(n - 1), k)

\* order_crossover: start, end = sorted(random.sample(range(size), 2))
CutPairs(size) ==
  {c \in (0..(size - 1)) \X (0..(size - 1)) :
     \E d \in Sample(size, 2) : c[1] = Min(d[1], d[2]) /\ c[1] < c[2] /\ c[2] \in {d[1], d[2]}}

\* TournamentWinner taking, of the drawn indices with the highest fitness,
\* the lowest one
TournamentWinnerLowest(draw, scores) ==
  CHOOSE w \in Range(draw) :
    /\ \A k \in DOMAIN draw : scores[draw[k] + 1] <= scores[w + 1]
    /\ \A k \in DOMAIN draw : scores[draw[k] + 1] = scores[w + 1] => w <= draw[k]

\* max(tournament_fitness, key=lambda x: x[1])[0]: the first index of the
\* draw whose fitness is the highest
TournamentWinner(draw, scores) ==
  LET j == CHOOSE j \in DOMAIN draw :
             /\ \A k \in DOMAIN draw : scores[draw[k] + 1] <= scores[draw[j] + 1]
             /\ \A k \in 1..(j - 1) : scores[draw[k] + 1] < scores[draw[j] + 1]
  IN draw[j]

\* tournament_selection, given the indices drawn
TournamentSelection(pop, scores, draw) == pop[TournamentWinner(draw, scores) + 1]

\* Parent2Filtered that filters nothing out
Parent2Unfiltered(p1, p2, start, end) == p2

\* [p for p in parent2 if p not in child[start:end]]
Parent2Filtered(p1, p2, start, end) ==
  SelectSeq(p2, LAMBDA p : \A i \in (start + 1)..end : p1[i] # p)

\* OrderCrossover that fills the positions after the segment first and then
\* wraps around to those before it
OrderCrossoverWrap(p1, p2, start, end) ==
  LET size == Len(p1)
      filtered == Parent2Filtered(p1, p2, start, end)
  IN [i \in 1..size |->
        IF i - 1 < start THEN filtered[(size - end) + i]
        ELSE IF i - 1 < end THEN p1[i]
        ELSE filtered[(i - 1 - end) + 1]]

\* order_crossover, given the cut points (positions are 0-based in the
\* code, sequences 1-based here)
OrderCrossover(p1, p2, start, end) ==
  LET size == Len(p1)
      filtered == Parent2Filtered(p1, p2, start, end)
  IN [i \in 1..size |->
        IF i - 1 < start THEN filtered[i]
        ELSE IF i - 1 < end THEN p1[i]
        ELSE filtered[start + (i - 1 - end) + 1]]

\* SwapMutation that copies position j to position i and leaves j as it is
SwapMutationCopy(l, i, j) == [l EXCEPT ![i + 1] = l[j + 1]]

\* swap_mutation when random.random() < mutation_rate, given i, j
SwapMutation(l, i, j) == [l EXCEPT ![i + 1] = l[j + 1], ![j + 1] = l[i + 1]]

\* swap_mutation: every lineup it can return for l
Mutations(l) == {l} \cup {SwapMutation(l, d[1], d[2]) : d \in Sample(Len(l), 2)}

\* max(fitness_scores)
BestFitness(scores) ==
  CHOOSE m \in Range(scores) : \A k \in DOMAIN scores : scores[k] <= m

\* fitness_scores.index(max(fitness_scores)), 1-based
BestIdx(scores) ==
  CHOOSE i \in DOMAIN scores :
    /\ \A k \in DOMAIN scores : scores[k] <= scores[i]
    /\ \A k \in 1..(i - 1) : scores[k] < scores[i]

\* Elite that takes the last lineup of the highest fitness
EliteLast(pop, scores) ==
  pop[CHOOSE i \in DOMAIN scores :
        /\ \A k \in DOMAIN scores : scores[k] <= scores[i]
        /\ \A k \in (i + 1)..Len(scores) : scores[k] < scores[i]]

\* evolve_generation: new_population.append(self.population[best_idx].copy())
Elite(pop, scores) == pop[BestIdx(scores)]

\* CacheMiss that never finds the key
CacheMissAlways(cache, key) == TRUE

\* evaluate_fitness: `if lineup_key not in self.fitness_cache`
CacheMiss(cache, key) == key \notin DOMAIN cache

\* initialize_population: population_size random lineups
InitializedPopulations == [1..population_size -> RandomLineups]

\* SortedByMean that takes, of the results with the highest mean, the last
RECURSIVE SortedByMeanLastFirst(_)
SortedByMeanLastFirst(rs) ==
  IF rs = <<>> THEN <<>>
  ELSE LET i == CHOOSE i \in DOMAIN rs :
                  /\ \A k \in DOMAIN rs : rs[k].mean_runs <= rs[i].mean_runs
                  /\ \A k \in (i + 1)..Len(rs) : rs[k].mean_runs < rs[i].mean_runs
       IN <<rs[i]>> \o SortedByMeanLastFirst(SubSeq(rs, 1, i - 1) \o SubSeq(rs, i + 1, Len(rs)))

\* sorted(final_results, key=lambda x: x.mean_runs, reverse=True): stable,
\* highest mean first
RECURSIVE SortedByMean(_)
SortedByMean(rs) ==
  IF rs = <<>> THEN <<>>
  ELSE LET i == CHOOSE i \in DOMAIN rs :
                  /\ \A k \in DOMAIN rs : rs[k].mean_runs <= rs[i].mean_runs
                  /\ \A k \in 1..(i - 1) : rs[k].mean_runs < rs[i].mean_runs
       IN <<rs[i]>> \o SortedByMean(SubSeq(rs, 1, i - 1) \o SubSeq(rs, i + 1, Len(rs)))

\* run_genetic_phase: ga_optimizer.population = [] ; the seeds are appended,
\* then random lineups while len(population) < population_size
SeedPopulation ==
  /\ gaPc = "constructed"
  /\ \E pad \in [1..(IF Len(seed_lineups) < population_size
                     THEN population_size - Len(seed_lineups) ELSE 0) -> RandomLineups] :
       population' = seed_lineups \o pad
  /\ gaPc' = "seeded"
  /\ UNCHANGED <<players, lineup_size, population_size, tournament_size,
                 fitness_cache, generations, generation, fitness_scores,
                 new_population, final_results, sorted_results, seed_lineups,
                 sim_calls,
                 ga_num_games, best_fitness_history, earlier_runs,
                 lineup_size_arg>>
  /\ UNCHANGED <<simVars, otherVars>>

\* optimize: self.initialize_population(), then the first generation starts
InitializePopulation ==
  /\ gaPc \in {"new", "seeded"}
  /\ population' \in InitializedPopulations
  /\ generation' = 0
  /\ fitness_scores' = <<>>
  /\ best_fitness_history' = <<>>
  /\ gaPc' = "evaluate"
  /\ UNCHANGED <<players, lineup_size, population_size, tournament_size,
                 fitness_cache, generations, new_population, final_results,
                 sorted_results, seed_lineups, sim_calls,
                 ga_num_games, earlier_runs, lineup_size_arg>>
  /\ UNCHANGED <<simVars, otherVars>>

\* evolve_generation: one turn of `for lineup in self.population`, with the
\* call of evaluate_fitness
EvaluateFitness ==
  /\ gaPc = "evaluate"
  /\ Len(fitness_scores) < Len(population)
  /\ LET key == LineupKey(population[Len(fitness_scores) + 1]) IN
       IF CacheMiss(fitness_cache, key)
       THEN \E mean_runs \in FitnessValues :
              /\ fitness_cache' = [k \in DOMAIN fitness_cache \cup {key} |->
                                     IF k = key THEN mean_runs ELSE fitness_cache[k]]
              /\ sim_calls' = [k \in DOMAIN sim_calls \cup {key} |->
                                 IF k \in DOMAIN sim_calls
                                 THEN sim_calls[k] + (IF k = key THEN 1 ELSE 0)
                                 ELSE 1]
              /\ fitness_scores' = Append(fitness_scores, fitness_cache'[key])
       ELSE /\ fitness_scores' = Append(fitness_scores, fitness_cache[key])
            /\ UNCHANGED <<fitness_cache, sim_calls>>
  /\ UNCHANGED <<players, lineup_size, population_size, tournament_size,
                 population, gaPc, generations, generation, new_population,
                 final_results, sorted_results, seed_lineups,
                 ga_num_games, best_fitness_history, earlier_runs,
                 lineup_size_arg>>
  /\ UNCHANGED <<simVars, otherVars>>

\* Elitism that starts the next population empty
ElitismNone ==
  /\ gaPc = "evaluate"
  /\ Len(fitness_scores) = Len(population)
  /\ new_population' = <<>>
  /\ gaPc' = "breed"
  /\ UNCHANGED <<players, lineup_size, population_size, tournament_size,
                 population, fitness_cache, generations, generation,
                 fitness_scores, final_results, sorted_results, seed_lineups,
                 sim_calls,
                 ga_num_games, best_fitness_history, earlier_runs,
                 lineup_size_arg>>
  /\ UNCHANGED <<simVars, otherVars>>

\* evolve_generation: new_population = [] and the elite is appended
Elitism ==
  /\ gaPc = "evaluate"
  /\ Len(fitness_scores) = Len(population)
  /\ new_population' = <<Elite(population, fitness_scores)>>
  /\ gaPc' = "breed"
  /\ UNCHANGED <<players, lineup_size, population_size, tournament_size,
                 population, fitness_cache, generations, generation,
                 fitness_scores, final_results, sorted_results, seed_lineups,
                 sim_calls,
                 ga_num_games, best_fitness_history, earlier_runs,
                 lineup_size_arg>>
  /\ UNCHANGED <<simVars, otherVars>>

\* evolve_generation, one turn of the while loop: every child that two
\* tournaments, order_crossover and swap_mutation can produce
Children(pop, scores, tsize) ==
  UNION { Mutations(OrderCrossover(TournamentSelection(pop, scores, d[1]),
                                   TournamentSelection(pop, scores, d[2]),
                                   c[1], c[2])) :
            d \in Sample(Len(pop), tsize) \X Sample(Len(pop), tsize),
            c \in CutPairs(Len(pop[1])) }

\* evolve_generation: one turn of `while len(new_population) <
\* self.population_size`: two tournaments, crossover, mutation, append
Breed ==
  /\ gaPc = "breed"
  /\ Len(new_population) < population_size
  /\ \E c \in Children(population, fitness_scores, tournament_size) :
       new_population' = Append(new_population, c)
  /\ UNCHANGED <<players, lineup_size, population_size, tournament_size,
                 population, fitness_cache, gaPc, generations, generation,
                 fitness_scores, final_results, sorted_results, seed_lineups,
                 sim_calls,
                 ga_num_games, best_fitness_history, earlier_runs,
                 lineup_size_arg>>
  /\ UNCHANGED <<simVars, otherVars>>

\* the same turn when random.sample raises ValueError (a sample larger than
\* its range): the exception leaves evolve_generation and optimize
BreedRaises ==
  /\ gaPc = "breed"
  /\ Len(new_population) < population_size
  /\ \/ Sample(Len(population), tournament_size) = {}
     \/ CutPairs(lineup_size) = {}
  /\ gaPc' = "error"
  /\ UNCHANGED <<players, lineup_size, population_size, tournament_size,
                 population, fitness_cache, generations, generation,
                 fitness_scores, new_population, final_results, sorted_results,
                 seed_lineups, sim_calls,
                 ga_num_games, best_fitness_history, earlier_runs,
                 lineup_size_arg>>
  /\ UNCHANGED <<simVars, otherVars>>

\* evolve_generation: self.population = new_population and return; optimize
\* goes on with the next generation or with the final evaluation
Replace ==
  /\ gaPc = "breed"
  /\ ~(Len(new_population) < population_size)
  /\ population' = new_population
  /\ generation' = generation + 1
  /\ fitness_scores' = <<>>
  /\ new_population' = <<>>
  /\ best_fitness_history' = Append(best_fitness_history, BestFitness(fitness_scores))
  /\ gaPc' = IF generation + 1 < generations THEN "evaluate" ELSE "final"
  /\ UNCHANGED <<players, lineup_size, population_size, tournament_size,
                 fitness_cache, generations, final_results, sorted_results,
                 seed_lineups, sim_calls,
                 ga_num_games, earlier_runs, lineup_size_arg>>
  /\ UNCHANGED <<simVars, otherVars>>

\* FinalResults that takes the means from the cache and plays num_games
\* games for a lineup the cache does not hold
FinalResultsCached(pop) ==
  {[i \in DOMAIN pop |->
      [lineup |-> pop[i],
       mean_runs |-> IF LineupKey(pop[i]) \in DOMAIN fitness_cache
                     THEN fitness_cache[LineupKey(pop[i])] ELSE m[i],
       total_games |-> IF LineupKey(pop[i]) \in DOMAIN fitness_cache
                       THEN 0 ELSE ga_num_games]] :
     m \in [DOMAIN pop -> FitnessValues]}

\* optimize: the final loop, evaluate_lineup(lineup, num_games * 2, innings)
\* called directly for every lineup of the population: the lists it can build
FinalResults(pop) ==
  {[i \in DOMAIN pop |-> [lineup |-> pop[i], mean_runs |-> m[i],
                           total_games |-> ga_num_games * 2]] :
     m \in [DOMAIN pop -> FitnessValues]}

\* optimize: the final evaluation, sorted_results = sorted(...) and return
FinalEvaluation ==
  /\ gaPc = "final"
  /\ final_results' \in FinalResults(population)
  /\ sorted_results' = SortedByMean(final_results')
  /\ gaPc' = "done"
  /\ UNCHANGED <<players, lineup_size, population_size, tournament_size,
                 population, fitness_cache, generations, generation,
                 fitness_scores, new_population, seed_lineups, sim_calls,
                 ga_num_games, best_fitness_history, earlier_runs,
                 lineup_size_arg>>
  /\ UNCHANGED <<simVars, otherVars>>

\* the (population_size, generations) pairs of the runs followed: two
\* lineups for up to MaxGenerations generations, three for one generation
RunShapes == {<<2, g>> : g \in 1..MaxGenerations} \cup {<<3, 1>>}

\* the same for the runs started by run_genetic_phase
MasterShapes == {<<2, 1>>}

\* GeneticLineupOptimizer.__init__ with the players loaded, and the arguments
\* of optimize (tournament_size < population_size, as the configuration
\* surface asks)
Constructed(shapes) ==
  /\ players = EnginePlayers
  /\ \E ls \in 1..(Len(Roster) + 1) : lineup_size = Min(ls, Len(players))
  /\ \E sh \in shapes : population_size = sh[1] /\ generations = sh[2]
  /\ tournament_size \in 1..(population_size - 1)
  /\ population = <<>>
  /\ fitness_cache = <<>>
  /\ generation = 0
  /\ fitness_scores = <<>>
  /\ new_population = <<>>
  /\ final_results = <<>>
  /\ sorted_results = <<>>
  /\ sim_calls = <<>>
  /\ best_fitness_history = <<>>
  /\ earlier_runs = 0
  /\ lineup_size_arg = 0

\* genetic_optimizer.main: the engine is built and optimize is called
Init ==
  /\ Constructed(RunShapes)
  /\ ga_num_games = 1
  /\ gaPc = "new"
  /\ seed_lineups = <<>>
  /\ SimIdle
  /\ OxIdle

NextGA ==
  \/ InitializePopulation
  \/ EvaluateFitness
  \/ Elitism
  \/ Breed
  \/ BreedRaises
  \/ Replace
  \/ FinalEvaluation

Next == NextGA

Spec == Init /\ [][Next]_vars

\* MasterLineupOptimizer.run_genetic_phase: the engine is built, seeded with
\* the lineups of the random phase's results, and optimize is called
InitMaster ==
  /\ Constructed(MasterShapes)
  /\ ga_num_games = 1
  /\ gaPc = "constructed"
  /\ seed_lineups \in UNION {[1..n -> RandomLineups] : n \in 0..MaxSeeds}
  /\ SimIdle
  /\ OxIdle

NextMaster ==
  \/ SeedPopulation
  \/ NextGA

SpecMaster == InitMaster /\ [][NextMaster]_vars

\* ---------------------------------------------- the engine's construction
\* __init__ that stores the lineup_size argument as it is
ConstructUnclamped ==
  /\ gaPc = "unbuilt"
  /\ lineup_size' = lineup_size_arg
  /\ fitness_cache' = <<>>
  /\ population' = <<>>
  /\ gaPc' = "new"
  /\ UNCHANGED <<players, population_size, tournament_size, generations,
                 generation, fitness_scores, new_population, final_results,
                 sorted_results, seed_lineups, sim_calls, ga_num_games,
                 best_fitness_history, earlier_runs, lineup_size_arg>>
  /\ UNCHANGED <<simVars, otherVars>>

\* GeneticLineupOptimizer.__init__: self.lineup_size = min(lineup_size,
\* len(players)), self.population = [], self.fitness_cache = {}
Construct ==
  /\ gaPc = "unbuilt"
  /\ lineup_size' = Min(lineup_size_arg, Len(players))
  /\ fitness_cache' = <<>>
  /\ population' = <<>>
  /\ gaPc' = "new"
  /\ UNCHANGED <<players, population_size, tournament_size, generations,
                 generation, fitness_scores, new_population, final_results,
                 sorted_results, seed_lineups, sim_calls, ga_num_games,
                 best_fitness_history, earlier_runs, lineup_size_arg>>
  /\ UNCHANGED <<simVars, otherVars>>

\* GeneticLineupOptimizer(players, lineup_size, 2, tournament_size = 1) is
\* about to be built on a roster of one, two or three players, with any
\* lineup_size argument of 1..MaxLineupSizeArg; optimize(generations = 1,
\* num_games = 1) follows
InitConstruct ==
  /\ gaPc = "unbuilt"
  /\ \E n \in 1..Len(EnginePlayers) : players = SubSeq(EnginePlayers, 1, n)
  /\ lineup_size_arg \in 1..MaxLineupSizeArg
  /\ lineup_size = 0
  /\ population_size = 2
  /\ tournament_size = 1
  /\ generations = 1
  /\ ga_num_games = 1
  /\ population = <<>>
  /\ fitness_cache = <<>>
  /\ generation = 0
  /\ fitness_scores = <<>>
  /\ new_population = <<>>
  /\ final_results = <<>>
  /\ sorted_results = <<>>
  /\ seed_lineups = <<>>
  /\ sim_calls = <<>>
  /\ best_fitness_history = <<>>
  /\ earlier_runs = 0
  /\ SimIdle
  /\ OxIdle

NextConstruct ==
  \/ Construct
  \/ NextGA

SpecConstruct == InitConstruct /\ [][NextConstruct]_vars

\* ------------------------------------------------- player_hit on its own
\* Player.__init__(name, ab, singles, doubles, triples, homers): the counts
\* stored, with hits and outs derived
NewPlayer(ab, s, d, t, h) ==
  [ab |-> ab, singles |-> s, doubles |-> d, triples |-> t, homers |-> h,
   hits |-> s + d + t + h, outs |-> ab - (s + d + t + h)]

\* [label] * n: n copies, none for n <= 0
Repeat(label, n) == [i \in 1..n |-> label]

\* a token list with one token of every label, whatever the counts
OutcomeTokensUnweighted(p) == <<"out", "1B", "2B", "3B", "HR">>

\* player_hit: the list `outcomes`
OutcomeTokens(p) ==
  Repeat("out", p.outs) \o Repeat("1B", p.singles) \o Repeat("2B", p.doubles)
    \o Repeat("3B", p.triples) \o Repeat("HR", p.homers)

\* player_hit(player): the token list is built
HitBuild ==
  /\ hitPc = "call"
  /\ outcomes' = OutcomeTokens(hit_player)
  /\ hitPc' = "choose"
  /\ UNCHANGED <<hit_player, choice, hit_result>>
  /\ UNCHANGED <<simVars, gaVars, oxVars, evalVars, tsVars, smVars>>

\* player_hit: return random.choice(outcomes), any one of the tokens
HitChoose ==
  /\ hitPc = "choose"
  /\ \E i \in DOMAIN outcomes :
       /\ choice' = i
       /\ hit_result' = outcomes[i]
  /\ hitPc' = "returned"
  /\ UNCHANGED <<hit_player, outcomes>>
  /\ UNCHANGED <<simVars, gaVars, oxVars, evalVars, tsVars, smVars>>

\* random.choice on an empty list raises IndexError
HitRaises ==
  /\ hitPc = "choose"
  /\ outcomes = <<>>
  /\ hitPc' = "error"
  /\ UNCHANGED <<hit_player, outcomes, choice, hit_result>>
  /\ UNCHANGED <<simVars, gaVars, oxVars, evalVars, tsVars, smVars>>

\* player_hit is called with a Player built from any row load_players can
\* read: ab and the four hit counts non-negative, the hits possibly more
\* than ab
InitHit ==
  /\ hitPc = "call"
  /\ \E ab \in 0..MaxAB :
       \E s, d, t, h \in 0..MaxHitCount : hit_player = NewPlayer(ab, s, d, t, h)
  /\ outcomes = <<>>
  /\ choice = 0
  /\ hit_result = "none"
  /\ SimIdle
  /\ GaIdle
  /\ OxCallIdle
  /\ EvalIdle
  /\ TsIdle
  /\ SmIdle

NextHit ==
  \/ HitBuild
  \/ HitChoose
  \/ HitRaises

SpecHit == InitHit /\ [][NextHit]_vars

\* ------------------------------------ optimize with its num_games argument
\* the runs followed with the num_games argument varied: two lineups over
\* MaxGenerations generations, so that an elite is carried into a later
\* generation
GamesShapes == {<<2, MaxGenerations>>}

\* the engine is built and optimize(generations, num_games) is called
InitGames ==
  /\ Constructed(GamesShapes)
  /\ ga_num_games \in 1..MaxGames
  /\ gaPc = "new"
  /\ seed_lineups = <<>>
  /\ SimIdle
  /\ OxIdle

NextGames == NextGA

SpecGames == InitGames /\ [][NextGames]_vars

\* ------------------------------------- optimize called again on one engine
\* optimize returns and is called once more on the same instance: the locals
\* of the call are new, the attributes of the engine (population,
\* fitness_cache) are what the earlier call left
OptimizeAgain ==
  /\ gaPc = "done"
  /\ earlier_runs < MaxReruns
  /\ earlier_runs' = earlier_runs + 1
  /\ final_results' = <<>>
  /\ sorted_results' = <<>>
  /\ gaPc' = "new"
  /\ UNCHANGED <<players, lineup_size, population_size, tournament_size,
                 population, fitness_cache, generations, generation,
                 fitness_scores, new_population, seed_lineups, sim_calls,
                 ga_num_games, best_fitness_history, lineup_size_arg>>
  /\ UNCHANGED <<simVars, otherVars>>

\* the runs followed when optimize is called again: two lineups, one
\* generation
RerunShapes == {<<2, 1>>}

InitRerun ==
  /\ Constructed(RerunShapes)
  /\ ga_num_games = 1
  /\ gaPc = "new"
  /\ seed_lineups = <<>>
  /\ SimIdle
  /\ OxIdle

NextRerun ==
  \/ NextGA
  \/ OptimizeAgain

SpecRerun == InitRerun /\ [][NextRerun]_vars

\* --------------------------------------------- order_crossover on its own
\* order_crossover(parent1, parent2): the cut points are drawn and the child
\* is built
Crossover ==
  /\ oxPc = "called"
  /\ \E c \in CutPairs(Len(parent1)) :
       /\ cuts' = c
       /\ child' = OrderCrossover(parent1, parent2, c[1], c[2])
  /\ oxPc' = "returned"
  /\ UNCHANGED <<parent1, parent2>>
  /\ UNCHANGED <<simVars, gaVars, evalVars, tsVars, smVars, hitVars>>

\* two duplicate-free parents of one length (2..MaxOXLen), each over any
\* players of 1..MaxOXPlayers
InitOX ==
  /\ oxPc = "called"
  /\ \E n \in 2..MaxOXLen :
       /\ parent1 \in Perms(1..MaxOXPlayers, n)
       /\ parent2 \in Perms(1..MaxOXPlayers, n)
  /\ cuts = <<>>
  /\ child = <<>>
  /\ SimIdle
  /\ GaIdle
  /\ EvalIdle
  /\ TsIdle
  /\ SmIdle
  /\ HitIdle

NextOX == Crossover

SpecOX == InitOX /\ [][NextOX]_vars

\* --------------------------------------- tournament_selection on its own
\* tournament_selection(population, fitness_scores): the indices are drawn,
\* the winner is found and a copy of its lineup is returned
Tournament ==
  /\ tsPc = "called"
  /\ \E draw \in Sample(Len(population), tournament_size) :
       /\ tournament_indices' = draw
       /\ winner_index' = TournamentWinner(draw, fitness_scores)
       /\ winner' = TournamentSelection(population, fitness_scores, draw)
  /\ tsPc' = "returned"
  /\ UNCHANGED <<simVars, gaVars, oxVars, evalVars, smVars, hitVars>>

\* an engine over the players loaded (lineups of all of them) with a
\* population of 2..MaxTSPop lineups, one fitness score each, and a
\* tournament_size of at most the population's length
InitTS ==
  /\ tsPc = "called"
  /\ tournament_indices = <<>>
  /\ winner_index = 0
  /\ winner = <<>>
  /\ players = EnginePlayers
  /\ lineup_size = Len(players)
  /\ population_size \in 2..MaxTSPop
  /\ population \in InitializedPopulations
  /\ fitness_scores \in [1..population_size -> FitnessValues]
  /\ tournament_size \in 1..population_size
  /\ fitness_cache = <<>>
  /\ gaPc = "idle"
  /\ ga_num_games = 0
  /\ best_fitness_history = <<>>
  /\ earlier_runs = 0
  /\ lineup_size_arg = 0
  /\ generations = 0
  /\ generation = 0
  /\ new_population = <<>>
  /\ final_results = <<>>
  /\ sorted_results = <<>>
  /\ seed_lineups = <<>>
  /\ sim_calls = <<>>
  /\ SimIdle
  /\ OxCallIdle
  /\ EvalIdle
  /\ SmIdle
  /\ HitIdle

NextTS == Tournament

SpecTS == InitTS /\ [][NextTS]_vars

\* ---------------------------------------------- swap_mutation on its own
\* swap_mutation when random.random() >= self.mutation_rate: the list
\* passed in is returned
MutateSkip ==
  /\ smPc = "called"
  /\ swap' = <<>>
  /\ mutated' = sm_lineup
  /\ smPc' = "returned"
  /\ UNCHANGED sm_lineup
  /\ UNCHANGED <<simVars, gaVars, oxVars, evalVars, tsVars, hitVars>>

\* MutateSwap without lineup.copy(): the swap is made in the list passed in
MutateSwapInPlace ==
  /\ smPc = "called"
  /\ \E d \in Sample(Len(sm_lineup), 2) :
       /\ swap' = d
       /\ mutated' = SwapMutation(sm_lineup, d[1], d[2])
       /\ sm_lineup' = SwapMutation(sm_lineup, d[1], d[2])
  /\ smPc' = "returned"
  /\ UNCHANGED <<simVars, gaVars, oxVars, evalVars, tsVars, hitVars>>

\* swap_mutation when random.random() < self.mutation_rate: lineup =
\* lineup.copy(), i and j are drawn, the copy's positions i and j are
\* exchanged and the copy is returned
MutateSwap ==
  /\ smPc = "called"
  /\ \E d \in Sample(Len(sm_lineup), 2) :
       /\ swap' = d
       /\ mutated' = SwapMutation(sm_lineup, d[1], d[2])
  /\ smPc' = "returned"
  /\ UNCHANGED sm_lineup
  /\ UNCHANGED <<simVars, gaVars, oxVars, evalVars, tsVars, hitVars>>

\* the same branch for a list of fewer than two players:
\* random.sample(range(len(lineup)), 2) raises ValueError
MutateRaises ==
  /\ smPc = "called"
  /\ Sample(Len(sm_lineup), 2) = {}
  /\ smPc' = "error"
  /\ UNCHANGED <<sm_lineup, swap, mutated>>
  /\ UNCHANGED <<simVars, gaVars, oxVars, evalVars, tsVars, hitVars>>

\* swap_mutation(lineup) is called on a lineup of 1..MaxSMLen players of
\* the roster
InitSM ==
  /\ smPc = "called"
  /\ sm_lineup \in UNION {Perms(PlayerIds, n) : n \in 1..MaxSMLen}
  /\ swap = <<>>
  /\ mutated = <<>>
  /\ SimIdle
  /\ GaIdle
  /\ OxCallIdle
  /\ EvalIdle
  /\ TsIdle
  /\ HitIdle

NextSM ==
  \/ MutateSkip
  \/ MutateSwap
  \/ MutateRaises

SpecSM == InitSM /\ [][NextSM]_vars

\* ------------------------------------------------------ simulator claims

\* C7 (as claimed): under fair outcome draws every inning eventually
\* reaches 3 outs and returns, also for a lineup in which every player has
\* zero out-producing at-bats.
C7_InningTerminates == [](simPc = "loop" => <>(simPc = "game"))

\* C8: an inning starts with empty bases, zero outs and zero runs; the out
\* counter is in {0,1,2} whenever an at-bat is taken, never exceeds 3, never
\* decreases within the inning, and simulate_inning returns exactly when the
\* out counter is 3.
C8_InningBounds ==
  /\ [](simPc = "apply" => outs \in {0, 1, 2})
  /\ [](simPc \in {"loop", "apply"} => outs \in 0..3)
  /\ [](simPc = "loop" /\ outs = 3 => ~ENABLED (\E r \in {"out", "1B", "2B", "3B", "HR"} : PlayerHit(r)))
  /\ [][simPc = "game" /\ simPc' = "loop"
          => bases' = <<None, None, None>> /\ outs' = 0 /\ runs' = 0]_vars
  /\ [][(simPc \in {"loop", "apply"} /\ simPc' \in {"loop", "apply"})
          => (outs <= outs')]_vars
  /\ [][simPc = "loop" /\ simPc' = "game" => outs = 3]_vars

\* C8 witness: an inning has reached its third out and returned, after an
\* at-bat was taken with two outs
C8_Witness ==
  simPc = "game" /\ inning = 1 /\ outs = 3 /\ result = "out" /\ runs > 0

\* C9: a single adds exactly 1 run if third base is occupied and 0
\* otherwise; third takes the former runner of second, second the former
\* runner of first, first the batter; outs are unchanged.
C9_Single ==
  [][simPc = "apply" /\ result = "1B" /\ simPc' = "loop"
       => /\ runs' = runs + (IF bases[3] # None THEN 1 ELSE 0)
          /\ bases'[3] = bases[2]
          /\ bases'[2] = bases[1]
          /\ bases'[1] = lineup[current_batter + 1]
          /\ outs' = outs]_vars

\* C9 witness: Bob (no home runs) tripled and then singled: the single
\* scored the runner of third and left only the batter on, at first
C9_Witness ==
  /\ lineup = <<2>> /\ simPc = "loop" /\ result = "1B"
  /\ outs = 0 /\ runs = 1 /\ bases = <<2, None, None>>

\* C10: a double adds one run for each of second and third that is
\* occupied; the former runner of first (if any) ends on third, the batter
\* occupies second, first base is empty; outs are unchanged.
C10_Double ==
  [][simPc = "apply" /\ result = "2B" /\ simPc' = "loop"
       => /\ runs' = runs + (IF bases[2] # None THEN 1 ELSE 0)
                          + (IF bases[3] # None THEN 1 ELSE 0)
          /\ bases'[3] = bases[1]
          /\ bases'[2] = lineup[current_batter + 1]
          /\ bases'[1] = None
          /\ outs' = outs]_vars

\* C10 witness: Cy (singles and doubles only) doubled with a runner on
\* first: two runs are in, the runner of first is on third, Cy on second
C10_Witness ==
  /\ lineup = <<3>> /\ simPc = "loop" /\ result = "2B"
  /\ outs = 0 /\ runs = 2 /\ bases = <<None, 3, 3>>

\* C11: from any base state a triple adds exactly as many runs as there are
\* occupied bases, leaves first and second empty and the batter on third,
\* outs unchanged; the at-bats [1B, 1B, 3B, out, out, out] from an empty
\* inning score exactly 2 runs.
C11_Triple ==
  /\ [][(simPc = "apply" /\ result = "3B" /\ simPc' = "loop")
          => /\ runs' = runs + Cardinality({i \in 1..3 : bases[i] # None})
             /\ bases' = <<None, None, lineup[current_batter + 1]>>
             /\ outs' = outs]_vars
  /\ []((simPc = "returned" /\ at_bats = <<"1B", "1B", "3B", "out", "out", "out">>)
          => runs = 2)

\* C11 witness: the inning of [1B, 1B, 3B, out, out, out] has returned, the
\* batter of the triple left on third
C11_Witness ==
  /\ simPc = "returned"
  /\ at_bats = <<"1B", "1B", "3B", "out", "out", "out">>
  /\ bases[1] = None /\ bases[2] = None /\ bases[3] # None

C13_Out ==
  /\ [][(simPc = "apply" /\ result = "out" /\ simPc' = "loop")
          => (outs' = outs + 1 /\ bases' = bases /\ runs' = runs)]_vars
  /\ [][(simPc = "loop" /\ simPc' = "game")
          => /\ result = "out"
             /\ runs' = runs /\ bases' = bases
             /\ inning_scores' = Append(inning_scores, runs)
             /\ total_runs' = total_runs + runs]_vars

\* C13 witness: an inning has ended scoreless with the bases loaded
C13_Witness ==
  /\ simPc = "game" /\ inning = 1 /\ outs = 3
  /\ \A i \in 1..3 : bases[i] # None
  /\ inning_scores = <<0>> /\ total_runs = 0

\* C14: after every at-bat, whatever its outcome, the cursor becomes
\* (cursor + 1) mod len(lineup); simulate_inning started at cursor c returns
\* (c + number of at-bats taken) mod len(lineup), within [0, len(lineup)).
C14_Cursor ==
  /\ [][(simPc = "apply" /\ simPc' = "loop")
          => current_batter' = (current_batter + 1) % Len(lineup)]_vars
  /\ [](simPc = "returned"
          => /\ current_batter = (batter_index + Len(at_bats)) % Len(lineup)
             /\ 0 <= current_batter /\ current_batter < Len(lineup))

\* C14 witness: an inning of three batters started at cursor 1, took five
\* at-bats (two of them hits) and returned cursor 0
C14_Witness ==
  /\ simPc = "returned"
  /\ Len(lineup) = 3 /\ batter_index = 1
  /\ Len(at_bats) = 5
  /\ current_batter = 0

\* C15: for a 3-player lineup and the at-bats [1B, 1B, 1B, out, out, out]
\* from an empty inning, the bases are loaded with 0 runs scored after the
\* third single, and the inning ends with exactly 0 runs.
C15_ThreeSingles ==
  /\ (Len(lineup) = 3 /\ simPc = "loop" /\ at_bats = <<"1B", "1B", "1B">>)
       => (runs = 0 /\ \A i \in 1..3 : bases[i] # None)
  /\ (Len(lineup) = 3 /\ simPc = "returned"
         /\ at_bats = <<"1B", "1B", "1B", "out", "out", "out">>)
       => runs = 0

\* C15 witness: a 3-player lineup has gone through [1B, 1B, 1B, out, out,
\* out]: each player singled and then made an out, the three are left on base
C15_Witness ==
  /\ Len(lineup) = 3 /\ simPc = "returned"
  /\ at_bats = <<"1B", "1B", "1B", "out", "out", "out">>
  /\ bases = <<lineup[((batter_index + 2) % 3) + 1],
               lineup[((batter_index + 1) % 3) + 1],
               lineup[batter_index + 1]>>

\* C16: for any non-empty lineup and inning count n >= 0, simulate_game
\* returns exactly n per-inning run values in play order, and total_runs is
\* the exact sum of those n values.
C16_GameTotals ==
  /\ [](simPc = "done"
          => (Len(inning_scores) = innings /\ total_runs = SeqSum(inning_scores)))
  /\ [][(simPc = "loop" /\ simPc' = "game")
          => /\ inning_scores' = Append(inning_scores, runs)
             /\ Len(inning_scores') = inning']_vars

\* C16 witness: a game of two innings has returned 1 and 2 runs, total 3
C16_Witness ==
  /\ simPc = "done" /\ innings = 2
  /\ inning_scores = <<1, 2>> /\ total_runs = 3

\* C17: the first inning of a game starts at cursor 0, and inning k+1 starts
\* at exactly the cursor inning k returned, which is the batter following
\* the one who made the third out: the order is never reset between innings.
C17_CursorCarry ==
  /\ []((simPc = "game" /\ inning = 0) => batter_index = 0)
  /\ [][(simPc = "game" /\ simPc' = "loop") => current_batter' = batter_index]_vars
  /\ [][(simPc = "loop" /\ simPc' = "game")
          => /\ batter_index' = current_batter
             /\ result = "out"
             /\ lineup[((current_batter + Len(lineup) - 1) % Len(lineup)) + 1] = player]_vars

\* C17 witness: the second inning of a two-player game has started at
\* cursor 1, the batter after the one who made the last out of the first
C17_Witness ==
  /\ simPc = "loop" /\ inning = 1 /\ Len(lineup) = 2
  /\ batter_index = 1 /\ current_batter = 1
  /\ outs = 0 /\ runs = 0 /\ bases = <<None, None, None>>
  /\ result = "out" /\ player = lineup[1]

\* C18: evaluate_lineup(lineup, N, innings) runs exactly N games and the
\* LineupResult it returns holds exactly N per-game totals; every game
\* starts from cursor 0 with empty bases however the game before ended, and
\* the lineup passed in is not modified.
C18_EvaluateLineup ==
  /\ [](evPc \in {"returned", "error"} => Len(runs_per_game) = num_games)
  /\ [](evPc = "returned"
          => /\ lineup_result.lineup = lineup
             /\ lineup_result.runs_per_game = runs_per_game
             /\ Len(lineup_result.runs_per_game) = num_games
             /\ lineup_result.total_games = num_games)
  /\ [][(simPc = "idle" /\ simPc' = "game")
          => (batter_index' = 0 /\ total_runs' = 0 /\ inning_scores' = <<>>)]_vars
  /\ [][(simPc = "game" /\ inning = 0 /\ simPc' = "loop")
          => /\ current_batter' = 0
             /\ bases' = <<None, None, None>>
             /\ outs' = 0 /\ runs' = 0]_vars
  /\ [][(simPc = "done" /\ simPc' = "idle")
          => runs_per_game' = Append(runs_per_game, total_runs)]_vars
  /\ [][lineup' = lineup]_vars

\* C18 witness: two games of a two-player lineup were evaluated, the first
\* scored 2 and the second 0; the last inning ended at cursor 1 with a
\* runner left on base
C18_Witness ==
  /\ evPc = "returned"
  /\ num_games = 2 /\ Len(lineup) = 2
  /\ lineup_result.runs_per_game = <<2, 0>>
  /\ current_batter = 1
  /\ \E i \in 1..3 : bases[i] # None

\* --------------------------------------------------------- engine claims

\* C1 (as claimed): every seed lineup handed to run_genetic_phase is a member
\* of the Population that the first generation's Evaluate step runs over,
\* which holds population_size lineups when there are no more seeds than that.
C1_SeedsInFirstGeneration ==
  (gaPc = "evaluate" /\ generation = 0)
    => /\ \A i \in DOMAIN seed_lineups :
            \E j \in DOMAIN population : population[j] = seed_lineups[i]
       /\ Len(seed_lineups) <= population_size => Len(population) = population_size

\* C19: tournament_selection draws tournament_size pairwise distinct indices
\* of the population and returns the lineup at the drawn index with the
\* highest fitness score; of several drawn candidates that tie for the
\* highest fitness, the first in draw order wins.
C19_TournamentSelection ==
  tsPc = "returned"
    => /\ Len(tournament_indices) = tournament_size
       /\ \A i \in DOMAIN tournament_indices :
            0 <= tournament_indices[i] /\ tournament_indices[i] < Len(population)
       /\ \A i, j \in DOMAIN tournament_indices :
            i # j => tournament_indices[i] # tournament_indices[j]
       /\ \E j \in DOMAIN tournament_indices :
            /\ winner_index = tournament_indices[j]
            /\ \A k \in DOMAIN tournament_indices :
                 fitness_scores[tournament_indices[k] + 1] <= fitness_scores[winner_index + 1]
            /\ \A k \in DOMAIN tournament_indices :
                 k < j => fitness_scores[tournament_indices[k] + 1] < fitness_scores[winner_index + 1]
       /\ winner = population[winner_index + 1]

\* C19 witness: indices 2, 0, 1 were drawn in that order, 2 and 0 tie for
\* the highest fitness and hold different lineups, and the lineup at 2 won
C19_Witness ==
  /\ tsPc = "returned"
  /\ tournament_indices = <<2, 0, 1>>
  /\ fitness_scores = <<1, 0, 1>>
  /\ population[1] # population[3]
  /\ winner_index = 2
  /\ winner = population[3]

\* C20: swap_mutation returns either the lineup unchanged or a lineup that
\* differs from the input in exactly two distinct positions whose players
\* are exchanged; either way the result has the players and the length of
\* the input, and the list passed in is not modified.
C20_SwapMutation ==
  /\ [](smPc = "returned"
          => /\ \/ mutated = sm_lineup
                \/ \E i, j \in DOMAIN sm_lineup :
                     /\ i # j
                     /\ {k \in DOMAIN sm_lineup : mutated[k] # sm_lineup[k]} = {i, j}
                     /\ mutated[i] = sm_lineup[j]
                     /\ mutated[j] = sm_lineup[i]
             /\ Len(mutated) = Len(sm_lineup)
             /\ DOMAIN mutated = DOMAIN sm_lineup
             /\ {mutated[k] : k \in DOMAIN mutated} = {sm_lineup[k] : k \in DOMAIN sm_lineup})
  /\ [][sm_lineup' = sm_lineup]_vars

\* C20 witness: positions 2 and 0 of a three-player lineup were drawn: the
\* lineup returned has its first and last players exchanged, the list
\* passed in has not
C20_Witness ==
  /\ smPc = "returned"
  /\ Len(sm_lineup) = 3
  /\ swap = <<2, 0>>
  /\ mutated = <<sm_lineup[3], sm_lineup[2], sm_lineup[1]>>
  /\ mutated # sm_lineup

\* C2: the child of order_crossover has the parents' length and holds no
\* player twice; when both parents are permutations of the same player set,
\* the child is a permutation of exactly that set.
C2_CrossoverPermutation ==
  oxPc = "returned"
    => /\ Len(child) = Len(parent1)
       /\ DOMAIN child = 1..Len(parent1)
       /\ \A i, j \in 1..Len(child) : i # j => child[i] # child[j]
       /\ Range(parent1) = Range(parent2) => Range(child) = Range(parent1)

\* C2 witness: parents of different membership were crossed and the child
\* mixes them: it holds a player parent1 lacks and one parent2 lacks
C2_Witness ==
  /\ oxPc = "returned"
  /\ Len(child) = 3
  /\ \E i \in DOMAIN child : child[i] \notin Range(parent1)
  /\ \E i \in DOMAIN child : child[i] \notin Range(parent2)

\* the index of the highest fitness, the first one when several tie
IsFirstBest(scores, i) ==
  /\ i \in DOMAIN scores
  /\ \A k \in DOMAIN scores : scores[k] <= scores[i]
  /\ \A k \in DOMAIN scores : k < i => scores[k] < scores[i]

\* C3: the highest-fitness lineup of generation G (the first in population
\* order among ties) is the first lineup of the next Population, before any
\* offspring, players and order unchanged.
C3_Elitism ==
  /\ [](gaPc = "breed"
          => \E i \in DOMAIN population :
               IsFirstBest(fitness_scores, i) /\ new_population[1] = population[i])
  /\ [][(gaPc = "breed" /\ gaPc' \in {"evaluate", "final"})
          => \E i \in DOMAIN population :
               IsFirstBest(fitness_scores, i) /\ population'[1] = population[i]]_vars

\* C3 witness: three lineups, the last two tie for the highest fitness and
\* differ; the next Population is complete and starts with the second
C3_Witness ==
  /\ gaPc = "breed"
  /\ Len(new_population) = 3
  /\ fitness_scores = <<0, 1, 1>>
  /\ population[2] # population[3]
  /\ population[1] # population[2]
  /\ new_population[1] = population[2]
  /\ new_population[2] # population[2]

\* a sequence of exactly lineup_size pairwise distinct players of the roster
ValidLineup(l) ==
  /\ DOMAIN l = 1..lineup_size
  /\ \A i \in DOMAIN l : \E p \in DOMAIN players : players[p] = l[i]
  /\ \A i, j \in DOMAIN l : i # j => l[i] # l[j]

\* C4: after initialize_population and after every evolve_generation the
\* Population holds exactly population_size lineups, each a sequence of
\* exactly lineup_size pairwise distinct players of the roster (the next
\* Population being built holds such lineups too).
C4_PopulationValid ==
  /\ gaPc \in {"evaluate", "breed", "final", "done", "error"}
       => /\ Len(population) = population_size
          /\ \A i \in DOMAIN population : ValidLineup(population[i])
  /\ \A i \in DOMAIN new_population : ValidLineup(new_population[i])

\* C4 witness: two generations of three-player lineups have been evolved and
\* the Population holds the elite and an offspring that differs from it
C4_Witness ==
  /\ gaPc = "final"
  /\ generation = 2
  /\ lineup_size = 3
  /\ population[2] # population[1]

\* C5: per ordered tuple of player names evaluate_fitness simulates once,
\* on the first call, and stores the mean; every later call returns the
\* stored value without simulating; no entry is removed or overwritten;
\* lineups that differ (also in order only) have different keys.
C5_FitnessCache ==
  /\ [](\A k \in DOMAIN fitness_cache : k \in DOMAIN sim_calls /\ sim_calls[k] = 1)
  /\ [](\A i, j \in DOMAIN population :
          LineupKey(population[i]) = LineupKey(population[j])
            => population[i] = population[j])
  /\ [][\A k \in DOMAIN fitness_cache :
          k \in DOMAIN fitness_cache' /\ fitness_cache'[k] = fitness_cache[k]]_vars
  /\ [][(gaPc = "evaluate" /\ Len(fitness_scores') = Len(fitness_scores) + 1)
          => LET key == LineupKey(population[Len(fitness_scores) + 1]) IN
               /\ key \in DOMAIN fitness_cache'
               /\ fitness_scores'[Len(fitness_scores')] = fitness_cache'[key]
               /\ key \in DOMAIN fitness_cache
                    => /\ fitness_scores'[Len(fitness_scores')] = fitness_cache[key]
                       /\ sim_calls' = sim_calls
                       /\ fitness_cache' = fitness_cache
               /\ key \notin DOMAIN fitness_cache
                    => DOMAIN fitness_cache' = DOMAIN fitness_cache \cup {key}]_vars

\* C5 witness: in the second generation the elite has been evaluated again
\* (a hit: the cache holds two keys, one simulation each), and the cache
\* holds Ann-Bob and Bob-Ann with different values
C5_Witness ==
  /\ gaPc = "evaluate"
  /\ generation = 1
  /\ Len(fitness_scores) = 1
  /\ DOMAIN fitness_cache = {<<"Ann", "Bob">>, <<"Bob", "Ann">>}
  /\ fitness_cache[<<"Ann", "Bob">>] # fitness_cache[<<"Bob", "Ann">>]
  /\ sim_calls[<<"Ann", "Bob">>] = 1

\* C21: optimize returns one LineupResult for every lineup of the last
\* Population (population_size results, the lineups of that Population),
\* ordered by mean runs non-increasing, results of equal mean in Population
\* order.
C21_SortedResults ==
  gaPc = "done"
    => /\ Len(sorted_results) = population_size
       /\ Len(final_results) = population_size
       /\ \A i \in DOMAIN final_results : final_results[i].lineup = population[i]
       /\ \E pi \in [1..population_size -> 1..population_size] :
            /\ \A k, l \in 1..population_size : k # l => pi[k] # pi[l]
            /\ \A k \in 1..population_size :
                 /\ sorted_results[k].lineup = population[pi[k]]
                 /\ sorted_results[k].mean_runs = final_results[pi[k]].mean_runs
            /\ \A k, l \in 1..population_size :
                 k < l => \/ sorted_results[k].mean_runs > sorted_results[l].mean_runs
                          \/ /\ sorted_results[k].mean_runs = sorted_results[l].mean_runs
                             /\ pi[k] < pi[l]

\* C21 witness: three lineups, the first of the lowest mean and the other
\* two, different lineups, of the same mean: the second and the third are
\* returned first, in that order
C21_Witness ==
  /\ gaPc = "done"
  /\ population_size = 3
  /\ population[2] # population[3]
  /\ population[1] # population[2]
  /\ population[1] # population[3]
  /\ final_results[1].mean_runs = 0
  /\ final_results[2].mean_runs = 1
  /\ final_results[3].mean_runs = 1
  /\ sorted_results[1].lineup = population[2]
  /\ sorted_results[2].lineup = population[3]
  /\ sorted_results[3].lineup = population[1]

\* C22 (as claimed): at the start of every optimize run, a second call on
\* the same engine included, the fitness cache holds no value computed by an
\* earlier run.
C22_CacheEmptyAtStart == gaPc = "new" => fitness_cache = <<>>

\* the number of simulations evaluate_fitness has run for a key
SimCount(calls, key) == IF key \in DOMAIN calls THEN calls[key] ELSE 0

\* the step of evolve_generation that evaluates the first lineup of a
\* generation after the first, which is the elite carried over
EliteEvaluated ==
  /\ gaPc = "evaluate"
  /\ generation > 0
  /\ Len(fitness_scores) = 0
  /\ Len(fitness_scores') = 1

\* C23 (as claimed): the elite carried from generation G into G+1 is
\* re-evaluated in G+1 with fresh random games (a new simulation is run for
\* it), so that its fitness in G+1 may differ from its fitness in G.
C23_EliteReevaluated ==
  [][EliteEvaluated
       => SimCount(sim_calls', LineupKey(population[1]))
            = SimCount(sim_calls, LineupKey(population[1])) + 1]_vars

\* C23 (amended): the elite carried from generation G into G+1 is not
\* simulated again in G+1: its evaluation plays no game and leaves the cache
\* as it is, and the fitness measured for it is the value the cache held,
\* from the one simulation ever run for that lineup.
C23_EliteNotResimulated ==
  [][EliteEvaluated
       => /\ sim_calls' = sim_calls
          /\ fitness_cache' = fitness_cache
          /\ LineupKey(population[1]) \in DOMAIN fitness_cache
          /\ fitness_scores'[1] = fitness_cache[LineupKey(population[1])]
          /\ SimCount(sim_calls, LineupKey(population[1])) = 1]_vars

\* C23 witness: in the second generation the elite and an offspring that
\* differs from it have been evaluated, the offspring to a lower fitness;
\* one simulation has been run for the elite in both generations together
C23_Witness ==
  /\ gaPc = "evaluate"
  /\ generation = 1
  /\ Len(fitness_scores) = 2
  /\ population[2] # population[1]
  /\ fitness_scores[2] < fitness_scores[1]
  /\ SimCount(sim_calls, LineupKey(population[1])) = 1
  /\ SimCount(sim_calls, LineupKey(population[2])) = 1

\* C27: within one engine run the elite's fitness in generation G+1 is the
\* cached one and equals the best fitness of generation G, so the best
\* fitness evolve_generation returns never decreases from one generation to
\* the next.
C27_BestFitnessMonotone ==
  /\ (gaPc \in {"evaluate", "breed"} /\ generation > 0 /\ Len(fitness_scores) >= 1)
       => /\ fitness_scores[1] = fitness_cache[LineupKey(population[1])]
          /\ fitness_scores[1] = best_fitness_history[generation]
  /\ Len(best_fitness_history) = (IF gaPc = "new" THEN 0 ELSE generation)
  /\ \A g, h \in DOMAIN best_fitness_history :
       g < h => best_fitness_history[g] <= best_fitness_history[h]

\* C27 witness: two generations are done, the second with a best fitness
\* above the first's, reached by an offspring
C27_Witness ==
  /\ gaPc = "final"
  /\ Len(best_fitness_history) = 2
  /\ best_fitness_history[1] < best_fitness_history[2]
  /\ population[1] # population[2]

\* C28: the final pass of optimize simulates every lineup of the last
\* Population with exactly 2 x num_games games; it leaves the cache and the
\* count of simulations run through it as they are, and whatever the cache
\* holds, every mean can be reported for every lineup (the mean comes from
\* the games just played, not from the cache).
C28_FinalPass ==
  /\ [][(gaPc = "final" /\ gaPc' = "done")
          => /\ fitness_cache' = fitness_cache
             /\ sim_calls' = sim_calls
             /\ population' = population
             /\ Len(final_results') = population_size
             /\ \A i \in DOMAIN final_results' :
                  /\ final_results'[i].lineup = population[i]
                  /\ final_results'[i].total_games = 2 * ga_num_games]_vars
  /\ [](gaPc = "final"
          => \A m \in [DOMAIN population -> FitnessValues] :
               \E rs \in FinalResults(population) :
                 \A i \in DOMAIN population : rs[i].mean_runs = m[i])

\* C28 witness: optimize(num_games = 2) has returned; four games were played
\* for each lineup and the mean reported for the elite is not the fitness
\* the cache holds for it
C28_Witness ==
  /\ gaPc = "done"
  /\ ga_num_games = 2
  /\ \A i \in DOMAIN final_results : final_results[i].total_games = 4
  /\ LineupKey(population[1]) \in DOMAIN fitness_cache
  /\ final_results[1].mean_runs # fitness_cache[LineupKey(population[1])]
  /\ population[2] # population[1]

\* C24 (as claimed): a LineupResult built from fewer than two simulated
\* games (0 or 1) is created successfully and has standard deviation 0.
C24_FewGamesResult ==
  (evPc \in {"returned", "error"} /\ Len(runs_per_game) < 2)
    => (evPc = "returned" /\ lineup_result.std_dev = 0)

\* the count a Player stores for an outcome label
StoredCount(p, label) ==
  CASE label = "out" -> p.outs
    [] label = "1B"  -> p.singles
    [] label = "2B"  -> p.doubles
    [] label = "3B"  -> p.triples
    [] label = "HR"  -> p.homers

\* the number of tokens of a label in a token list
TokenCount(tokens, label) == Cardinality({i \in DOMAIN tokens : tokens[i] = label})

\* the Player invariant of the data model: no count is negative (the hits
\* are not more than AB)
PlayerInvariant(p) ==
  \A label \in {"out", "1B", "2B", "3B", "HR"} : StoredCount(p, label) >= 0

\* C25: for a Player that meets the Player invariant, player_hit draws one of
\* exactly AB tokens, as many of each label as the Player's stored count; it
\* returns only a label whose count is > 0, every label whose count is > 0
\* can be returned, and with AB = 0 there is no token and the draw fails
\* instead of returning an outcome.
C25_OutcomeSampler ==
  (hitPc \in {"choose", "returned", "error"} /\ PlayerInvariant(hit_player))
    => /\ Len(outcomes) = hit_player.ab
       /\ \A label \in {"out", "1B", "2B", "3B", "HR"} :
            TokenCount(outcomes, label) = StoredCount(hit_player, label)
       /\ hitPc = "choose"
            => /\ \A label \in {"out", "1B", "2B", "3B", "HR"} :
                    StoredCount(hit_player, label) > 0
                      => ENABLED (HitChoose /\ hit_result' = label)
               /\ hit_player.ab > 0 => ~ENABLED HitRaises
               /\ hit_player.ab = 0 => (ENABLED HitRaises /\ ~ENABLED HitChoose)
       /\ hitPc = "returned"
            => /\ choice \in DOMAIN outcomes
               /\ hit_result = outcomes[choice]
               /\ StoredCount(hit_player, hit_result) > 0
               /\ hit_player.ab > 0
       /\ hitPc = "error" => hit_player.ab = 0

\* C25 witness: a Player of AB 3 with one single, one home run and two outs
\* has batted and the home run token, the last of the three, was drawn
C25_Witness ==
  /\ hitPc = "returned"
  /\ hit_player = NewPlayer(3, 1, 0, 0, 1)
  /\ Len(outcomes) = 3
  /\ choice = 3
  /\ hit_result = "HR"

\* the players of parent A's segment [start, end) (0-based cut points)
Segment(p1, start, end) == {p1[i] : i \in (start + 1)..end}

\* the rank, from 1, of the 1-based position i among the positions outside
\* the segment, left to right
RestRank(i, start, end) == IF i <= start THEN i ELSE start + (i - end)

\* C26: order_crossover draws cut points start < end; the child has parent
\* A's player at every position of [start, end); the k-th of the remaining
\* positions, left to right, has the k-th player of parent B, in B's order,
\* that does not occur in the copied segment.
C26_CrossoverStructure ==
  oxPc = "returned"
    => LET start == cuts[1]
           end   == cuts[2]
           seg   == Segment(parent1, start, end)
       IN /\ 0 <= start /\ start < end /\ end <= Len(parent1) - 1
          /\ Len(child) = Len(parent1)
          /\ \A i \in (start + 1)..end : child[i] = parent1[i]
          /\ \A i \in (1..start) \cup ((end + 1)..Len(parent1)) :
               \E j \in DOMAIN parent2 :
                 /\ parent2[j] \notin seg
                 /\ Cardinality({k \in 1..j : parent2[k] \notin seg})
                      = RestRank(i, start, end)
                 /\ child[i] = parent2[j]

\* C26 witness: parents 1-2-3 and 3-1-2 cut at [1, 2): the child keeps 2 in
\* the middle and takes 3 and 1, in parent B's order, around it
C26_Witness ==
  /\ oxPc = "returned"
  /\ parent1 = <<1, 2, 3>>
  /\ parent2 = <<3, 1, 2>>
  /\ cuts = <<1, 2>>
  /\ child = <<3, 2, 1>>

\* the at-bats of a list that were not outs
NonOuts(abs) == Cardinality({i \in DOMAIN abs : abs[i] # "out"})

\* the at-bats of the inning whose result has been applied
AppliedAtBats ==
  IF simPc = "apply" THEN SubSeq(at_bats, 1, Len(at_bats) - 1) ELSE at_bats

\* C29: at every point of an inning the runs scored so far plus the number
\* of occupied bases is the number of at-bats so far that were not outs (no
\* runner is lost or created), the outs are the at-bats that were outs, and
\* no more than three runners are on base.
C29_RunnerConservation ==
  simPc \in {"loop", "apply", "returned"}
    => /\ runs + Occupied(bases) = NonOuts(AppliedAtBats)
       /\ outs = Len(AppliedAtBats) - NonOuts(AppliedAtBats)
       /\ Occupied(bases) <= 3
       /\ Len(bases) = 3

\* C29 witness: after a double, a single, an out and a single, one run is
\* in and two runners are on base (first and second)
C29_Witness ==
  /\ simPc = "loop"
  /\ at_bats = <<"2B", "1B", "out", "1B">>
  /\ runs = 1
  /\ outs = 1
  /\ bases[1] # None /\ bases[2] # None /\ bases[3] = None

\* a lineup that holds each player of the roster exactly once
WholeRoster(l) ==
  /\ Len(l) = Len(players)
  /\ \A p \in DOMAIN players : Cardinality({i \in DOMAIN l : l[i] = players[p]}) = 1

\* C30: the engine can be built with a lineup_size above the roster size;
\* it then works with lineup_size = roster size and every lineup it creates
\* (random, elite or offspring) holds each roster player exactly once.
C30_LineupSizeClamped ==
  /\ gaPc = "unbuilt" => ENABLED Construct
  /\ (gaPc # "unbuilt" /\ lineup_size_arg > Len(players))
       => /\ lineup_size = Len(players)
          /\ \A i \in DOMAIN population : WholeRoster(population[i])
          /\ \A i \in DOMAIN new_population : WholeRoster(new_population[i])
          /\ \A i \in DOMAIN final_results : WholeRoster(final_results[i].lineup)
          /\ gaPc \in {"breed", "final", "done"} => Len(population) = population_size

\* C30 witness: an engine asked for lineups of 5 on a roster of three has
\* finished a run with two different lineups of the three players
C30_Witness ==
  /\ gaPc = "done"
  /\ lineup_size_arg = 5
  /\ Len(players) = 3
  /\ lineup_size = 3
  /\ population[1] # population[2]
  /\ WholeRoster(population[1])
  /\ WholeRoster(population[2])

\* the preconditions the configuration is asked to meet
Preconditions ==
  /\ Len(players) >= 2
  /\ \A i \in DOMAIN players : Roster[players[i]].ab > 0
  /\ 1 <= lineup_size /\ lineup_size <= Len(players)
  /\ 1 <= tournament_size /\ tournament_size < population_size

\* C6 (as claimed): once the preconditions hold, no operation of an engine
\* run fails with an error.
C6_NoOperationFails == Preconditions => gaPc # "error"

=============================================================================
